---- MODULE Spec2Model ----
(***************************************************************************)
(* State-machine model of the ContextMenu widget of                        *)
(* crates/ui2/src/components/context_menu.rs.                              *)
(*                                                                         *)
(* A menu is assembled by the builder methods (header, separator, entry,   *)
(* action) inside ContextMenu::build, and afterwards driven by the action  *)
(* listeners and mouse listeners that render() installs.  Indices are      *)
(* 0-based as in the source (items[ix] of the source is items[ix + 1] of   *)
(* the TLA+ sequence).  Option<T> is modelled as a sequence of length at   *)
(* most one.                                                               *)
(***************************************************************************)
EXTENDS Integers, Sequences, FiniteSets, TLC

\* ------------------------------------------------------------------ bounds
\* Longest item list the builder closure assembles.
MaxItems == 4
\* Longest run of consecutive select_next (or select_prev) operations that is
\* counted; a longer run is no longer tracked.
MaxStreak == 5

\* ------------------------------------------------------------ input values
Titles == {"Edit"}
Labels == {"Open"}
Actions == {"Copy", "Paste"}
NoAction == "-"

\* Option<T>
None == <<>>
Some(x) == <<x>>

\* ------------------------------------------------------------------- state
VARIABLES
    pc,              \* "building" inside the closure of build, then "built"
    items,           \* ContextMenu.items
    selected_index,  \* ContextMenu.selected_index : Option<usize>
    frame,           \* Option: the children of the List element built by
                     \* the last render, None before the first render
    trace,           \* what the most recent operation did, in program order:
                     \* handler invocations, dispatched actions, emitted
                     \* events and notify calls
    last_op,         \* the most recent operation: its name, the index it
                     \* was aimed at (clicks) and selected_index before it
    prev_op,         \* the operation right before last_op, kept when
                     \* last_op reverses it (a cursor move after the
                     \* opposite move) or repeats it (the same activation
                     \* of the same item again)
    streak           \* the run of consecutive select_next (or select_prev)
                     \* operations that started with nothing selected

vars == <<pc, items, selected_index, frame, trace, last_op, prev_op, streak>>

\* ------------------------------------------------------- ContextMenuItem
Separator == [kind |-> "Separator", label |-> "", handler |-> [rc |-> 0, action |-> NoAction], key_binding |-> None]
Header(title) == [kind |-> "Header", label |-> title, handler |-> [rc |-> 0, action |-> NoAction], key_binding |-> None]
Entry(label, handler, key_binding) == [kind |-> "Entry", label |-> label, handler |-> handler, key_binding |-> key_binding]

\* Rc::new(f): a fresh allocation, identified by rc; action is the boxed
\* action the closure captured (NoAction for a caller-supplied closure).
RcNew(rc, act) == [rc |-> rc, action |-> act]

\* KeyBinding::for_action looks the action up in the window's keymap.
KeyBinding_for_action(act) == IF act = "Copy" THEN Some("cmd-c") ELSE None

\* Variant of is_selectable: everything that has a label is selectable.
is_selectable_labelled(item) == item.kind # "Separator"

is_selectable(item) == item.kind = "Entry"

\* ----------------------------------------------------------------- effects
HandlerCall(rc) == [ev |-> "handler", rc |-> rc, action |-> NoAction]
DispatchAction(act) == [ev |-> "dispatch_action", rc |-> 0, action |-> act]
DismissEvent == [ev |-> "DismissEvent", rc |-> 0, action |-> NoAction]
Notify == [ev |-> "notify", rc |-> 0, action |-> NoAction]

\* Variant of Invoke: the closure made by action() runs without dispatching.
Invoke_without_dispatch(handler) == <<HandlerCall(handler.rc)>>

\* (handler)(cx): the closure runs; the closure made by action() dispatches
\* a clone of its captured action.
Invoke(handler) ==
    <<HandlerCall(handler.rc)>> \o
    (IF handler.action # NoAction THEN <<DispatchAction(handler.action)>> ELSE <<>>)

Op(name, ix, before) == [name |-> name, ix |-> ix, before |-> before]

\* ----------------------------------------------------------------- history
NoOp == Op("-", 0, None)
NoStreak == [name |-> "-", k |-> 0]
CursorMoves == {"select_next", "select_prev"}
Activations == {"confirm", "click"}

\* prev_op after an operation called name and aimed at index ix.
PrevOp(name, ix) ==
    IF \/ name \in CursorMoves /\ last_op.name \in CursorMoves \ {name}
       \/ name \in Activations /\ last_op.name = name /\ last_op.ix = ix
    THEN last_op
    ELSE NoOp

\* streak after an operation called name that found selected_index = sel.
Streak(name, sel) ==
    IF name \notin CursorMoves THEN NoStreak
    ELSE IF sel = None THEN [name |-> name, k |-> 1]
    ELSE IF streak.name = name /\ streak.k < MaxStreak THEN [name |-> name, k |-> streak.k + 1]
    ELSE NoStreak

\* ------------------------------------------------------------------- build
Init ==
    /\ pc = "building"
    /\ items = <<>>
    /\ selected_index = None
    /\ frame = None
    /\ trace = <<>>
    /\ last_op = Op("build", 0, None)
    /\ prev_op = NoOp
    /\ streak = NoStreak

\* Variant of Push: the item is inserted at the front of the list.
Push_front(item, name) ==
    /\ pc = "building"
    /\ Len(items) < MaxItems
    /\ items' = <<item>> \o items
    /\ last_op' = Op(name, 0, selected_index)
    /\ prev_op' = NoOp
    /\ streak' = NoStreak
    /\ UNCHANGED <<pc, selected_index, frame, trace>>

Push(item, name) ==
    /\ pc = "building"
    /\ Len(items) < MaxItems
    /\ items' = Append(items, item)
    /\ last_op' = Op(name, 0, selected_index)
    /\ prev_op' = NoOp
    /\ streak' = NoStreak
    /\ UNCHANGED <<pc, selected_index, frame, trace>>

header == \E title \in Titles : Push(Header(title), "header")

separator == Push(Separator, "separator")

entry == \E label \in Labels : Push(Entry(label, RcNew(Len(items) + 1, NoAction), None), "entry")

action ==
    \E label \in Labels, act \in Actions :
        Push(Entry(label, RcNew(Len(items) + 1, act), KeyBinding_for_action(act)), "action")

\* build_view returns the View once the closure f has returned the menu.
build_view ==
    /\ pc = "building"
    /\ pc' = "built"
    /\ last_op' = Op("build_view", 0, selected_index)
    /\ prev_op' = NoOp
    /\ streak' = NoStreak
    /\ UNCHANGED <<items, selected_index, frame, trace>>

\* --------------------------------------------------------- search helpers
\* items.iter().enumerate().skip(start): the first selectable index >= start.
RECURSIVE scan_forward(_, _)
scan_forward(its, start) ==
    IF start >= Len(its) THEN None
    ELSE IF is_selectable(its[start + 1]) THEN Some(start)
    ELSE scan_forward(its, start + 1)

\* items.iter().enumerate().take(n).rev(): the last selectable index < n.
RECURSIVE scan_backward(_, _)
scan_backward(its, n) ==
    IF n = 0 THEN None
    ELSE IF is_selectable(its[n]) THEN Some(n - 1)
    ELSE scan_backward(its, n - 1)

\* Iterator::take(n) of a list of length len yields min(n, len) elements.
Take(n, len) == IF n < len THEN n ELSE len

\* Vec::get
Get(its, ix) == IF ix < Len(its) THEN Some(its[ix + 1]) ELSE None

\* ------------------------------------------------------ ContextMenu methods
\* Each method maps (items, selected_index) to the new selected_index and
\* the effects it performs on cx, in order.
Result(sel, fx) == [sel |-> sel, fx |-> fx]

\* Variant of confirm: the DismissEvent is emitted before the handler runs.
confirm_dismiss_first(its, sel) ==
    LET item == IF sel = None THEN None ELSE Get(its, sel[1])
    IN  Result(sel,
               <<DismissEvent>> \o
               (IF item # None /\ item[1].kind = "Entry" THEN Invoke(item[1].handler) ELSE <<>>))

confirm(its, sel) ==
    LET item == IF sel = None THEN None ELSE Get(its, sel[1])
    IN  Result(sel,
               (IF item # None /\ item[1].kind = "Entry" THEN Invoke(item[1].handler) ELSE <<>>)
               \o <<DismissEvent>>)

\* Variant of cancel: behaves as confirm, running the selected entry's handler.
cancel_runs_handler(its, sel) == confirm(its, sel)

cancel(its, sel) == Result(sel, <<DismissEvent>>)

\* Variant of select_first: it also emits a DismissEvent, as confirm and
\* cancel do.
select_first_dismisses(its, sel) == Result(scan_forward(its, 0), <<Notify, DismissEvent>>)

select_first(its, sel) == Result(scan_forward(its, 0), <<Notify>>)

\* Variant of select_last: the selection is assigned without cx.notify().
select_last_silent(its, sel) ==
    LET found == scan_backward(its, Len(its))
    IN  IF found # None THEN Result(found, <<>>) ELSE Result(sel, <<>>)

\* Variant of select_last: the backward scan starts one item too early and
\* never looks at the last item.
select_last_skips_tail(its, sel) ==
    LET found == scan_backward(its, IF Len(its) = 0 THEN 0 ELSE Len(its) - 1)
    IN  IF found # None THEN Result(found, <<Notify>>) ELSE Result(sel, <<>>)

select_last(its, sel) ==
    LET found == scan_backward(its, Len(its))
    IN  IF found # None THEN Result(found, <<Notify>>) ELSE Result(sel, <<>>)

\* Variant of select_next: the scan starts at the selected index itself
\* (skip(ix) instead of skip(ix + 1)).
select_next_skip_ix(its, sel) ==
    IF sel # None
    THEN LET found == scan_forward(its, sel[1])
         IN  IF found # None THEN Result(found, <<Notify>>) ELSE Result(sel, <<>>)
    ELSE select_first(its, sel)

\* Variant of select_next: the scan starts two items after the selected one
\* (skip(ix + 2)), so an Entry right after the selection is passed over.
select_next_skips_one(its, sel) ==
    IF sel # None
    THEN LET found == scan_forward(its, sel[1] + 2)
         IN  IF found # None THEN Result(found, <<Notify>>) ELSE Result(sel, <<>>)
    ELSE select_first(its, sel)

\* Variant of select_next: circular, past the last entry it wraps to the first.
select_next_wraps(its, sel) ==
    IF sel # None
    THEN LET found == scan_forward(its, sel[1] + 1)
         IN  IF found # None THEN Result(found, <<Notify>>) ELSE select_first(its, sel)
    ELSE select_first(its, sel)

\* Variant of select_next: with nothing selected it scans from index 1, as if
\* the cursor stood on index 0.
select_next_from_zero(its, sel) ==
    LET found == scan_forward(its, (IF sel # None THEN sel[1] ELSE 0) + 1)
    IN  IF found # None THEN Result(found, <<Notify>>) ELSE Result(sel, <<>>)

select_next(its, sel) ==
    IF sel # None
    THEN LET found == scan_forward(its, sel[1] + 1)
         IN  IF found # None THEN Result(found, <<Notify>>) ELSE Result(sel, <<>>)
    ELSE select_first(its, sel)

\* Variant of select_prev: the backward scan includes the selected item
\* (take(ix + 1) instead of take(ix)).
select_prev_take_inclusive(its, sel) ==
    IF sel # None
    THEN LET found == scan_backward(its, Take(sel[1] + 1, Len(its)))
         IN  IF found # None THEN Result(found, <<Notify>>) ELSE Result(sel, <<>>)
    ELSE select_last(its, sel)

\* Variant of select_prev: the result of the backward search is assigned as
\* it is, also when nothing was found.
select_prev_assigns_search(its, sel) ==
    IF sel # None
    THEN Result(scan_backward(its, Take(sel[1], Len(its))), <<Notify>>)
    ELSE select_last(its, sel)

select_prev(its, sel) ==
    IF sel # None
    THEN LET found == scan_backward(its, Take(sel[1], Len(its)))
         IN  IF found # None THEN Result(found, <<Notify>>) ELSE Result(sel, <<>>)
    ELSE select_last(its, sel)

\* ------------------------------------------------------------------ render
ListSeparator == [el |-> "ListSeparator", label |-> "", selected |-> FALSE, on_click |-> None, key_binding |-> None]
ListSubHeader(title) == [el |-> "ListSubHeader", label |-> title, selected |-> FALSE, on_click |-> None, key_binding |-> None]
ListItem(label, selected, callback, key_binding) ==
    [el |-> "ListItem", label |-> label, selected |-> selected, on_click |-> Some(callback), key_binding |-> key_binding]

\* The element built for items[ix] by the closure passed to List::children.
\* Variant of render_item: the selected flag is computed with a 1-based index.
render_item_one_based(ix, item, sel) ==
    IF item.kind = "Separator" THEN ListSeparator
    ELSE IF item.kind = "Header" THEN ListSubHeader(item.label)
    ELSE ListItem(item.label, Some(ix + 1) = sel, item.handler, item.key_binding)

render_item(ix, item, sel) ==
    IF item.kind = "Separator" THEN ListSeparator
    ELSE IF item.kind = "Header" THEN ListSubHeader(item.label)
    ELSE ListItem(item.label, Some(ix) = sel, item.handler, item.key_binding)

render_list(its, sel) == [i \in 1..Len(its) |-> render_item(i - 1, its[i], sel)]

render ==
    /\ pc = "built"
    /\ frame' = Some(render_list(items, selected_index))
    /\ trace' = <<>>
    /\ last_op' = Op("render", 0, selected_index)
    /\ prev_op' = NoOp
    /\ streak' = NoStreak
    /\ UNCHANGED <<pc, items, selected_index>>

\* --------------------------------------------------------------- listeners
\* cx.listener(ContextMenu::m), installed on the element tree by render: run
\* method m on the view.
Listener(r, name) ==
    /\ pc = "built"
    /\ frame # None
    /\ selected_index' = r.sel
    /\ trace' = r.fx
    /\ last_op' = Op(name, 0, selected_index)
    /\ prev_op' = PrevOp(name, 0)
    /\ streak' = Streak(name, selected_index)
    /\ UNCHANGED <<pc, items, frame>>

on_action_select_first == Listener(select_first(items, selected_index), "select_first")
on_action_select_last == Listener(select_last(items, selected_index), "select_last")
on_action_select_next == Listener(select_next(items, selected_index), "select_next")
on_action_select_prev == Listener(select_prev(items, selected_index), "select_prev")
on_action_confirm == Listener(confirm(items, selected_index), "confirm")
on_action_cancel == Listener(cancel(items, selected_index), "cancel")

\* A mouse-down outside the rendered menu.
on_mouse_down_out == Listener(cancel(items, selected_index), "mouse_down_out")

\* The on_click closure of a rendered ListItem: callback(cx); dismiss(event, cx).
click_effects(callback) == Invoke(callback) \o <<DismissEvent>>

\* Variant of on_click: the click activates the selected item, as confirm
\* does, instead of the item that was clicked.
on_click_selected ==
    /\ pc = "built"
    /\ frame # None
    /\ \E i \in 1..Len(frame[1]) :
        /\ frame[1][i].on_click # None
        /\ trace' = confirm(items, selected_index).fx
        /\ last_op' = Op("click", i - 1, selected_index)
        /\ prev_op' = PrevOp("click", i - 1)
        /\ streak' = Streak("click", selected_index)
        /\ UNCHANGED <<pc, items, selected_index, frame>>

on_click ==
    /\ pc = "built"
    /\ frame # None
    /\ \E i \in 1..Len(frame[1]) :
        /\ frame[1][i].on_click # None
        /\ trace' = click_effects(frame[1][i].on_click[1])
        /\ last_op' = Op("click", i - 1, selected_index)
        /\ prev_op' = PrevOp("click", i - 1)
        /\ streak' = Streak("click", selected_index)
        /\ UNCHANGED <<pc, items, selected_index, frame>>

Next ==
    \/ header
    \/ separator
    \/ entry
    \/ action
    \/ build_view
    \/ render
    \/ on_action_select_first
    \/ on_action_select_last
    \/ on_action_select_next
    \/ on_action_select_prev
    \/ on_action_confirm
    \/ on_action_cancel
    \/ on_mouse_down_out
    \/ on_click

Spec == Init /\ [][Next]_vars

\* ================================================================ properties
Count(tr, name) == Len(SelectSeq(tr, LAMBDA e : e.ev = name))
HandlerCalls(tr) == SelectSeq(tr, LAMBDA e : e.ev = "handler")
IsEntryAt(its, ix) == ix < Len(its) /\ its[ix + 1].kind = "Entry"

\* The handler of the entry at index ix ran exactly once, no other handler
\* ran, and exactly one DismissEvent was emitted, after the handler returned.
HandlerThenDismiss(tr, its, ix) ==
    /\ HandlerCalls(tr) = <<HandlerCall(its[ix + 1].handler.rc)>>
    /\ tr[1] = HandlerCall(its[ix + 1].handler.rc)
    /\ Count(tr, "DismissEvent") = 1
    /\ tr[Len(tr)] = DismissEvent

\* C1: confirm with an Entry selected runs that entry's handler exactly once
\* and then emits exactly one DismissEvent; confirm with nothing selected
\* runs no handler and emits exactly one DismissEvent; neither changes items
\* or selected_index.
C1_Confirm ==
    [][last_op'.name = "confirm" =>
        /\ items' = items
        /\ selected_index' = selected_index
        /\ selected_index = None =>
            /\ Count(trace', "handler") = 0
            /\ Count(trace', "DismissEvent") = 1
        /\ (selected_index # None /\ IsEntryAt(items, selected_index[1])) =>
            HandlerThenDismiss(trace', items, selected_index[1])]_vars

C1_Witness ==
    /\ last_op.name = "confirm"
    /\ last_op.before # None
    /\ selected_index = last_op.before
    /\ IsEntryAt(items, selected_index[1])
    /\ Count(trace, "handler") = 1
    /\ Count(trace, "DismissEvent") = 1

\* C2: cancel, and a mouse-down outside the menu, emit exactly one
\* DismissEvent, run no handler and leave items and selected_index unchanged,
\* whatever is selected.
C2_Cancel ==
    [][last_op'.name \in {"cancel", "mouse_down_out"} =>
        /\ Count(trace', "DismissEvent") = 1
        /\ Count(trace', "handler") = 0
        /\ Count(trace', "dispatch_action") = 0
        /\ items' = items
        /\ selected_index' = selected_index]_vars

C2_Witness ==
    /\ last_op.name = "mouse_down_out"
    /\ last_op.before # None
    /\ selected_index = last_op.before
    /\ trace = <<DismissEvent>>

\* C3: a click on the Entry at index ix runs the handler of items[ix] exactly
\* once, and no other handler, then emits exactly one DismissEvent, whatever
\* selected_index is; items and selected_index are unchanged.
C3_Click ==
    [][last_op'.name = "click" =>
        /\ IsEntryAt(items, last_op'.ix)
        /\ HandlerThenDismiss(trace', items, last_op'.ix)
        /\ items' = items
        /\ selected_index' = selected_index]_vars

C3_Witness ==
    /\ last_op.name = "click"
    /\ last_op.before # None
    /\ last_op.before # Some(last_op.ix)
    /\ selected_index = last_op.before
    /\ HandlerThenDismiss(trace, items, last_op.ix)

\* The indices of the selectable items of a list.
EntryIndices(its) == {j \in 0..(Len(its) - 1) : its[j + 1].kind = "Entry"}
MinOf(S) == CHOOSE x \in S : \A y \in S : x <= y
MaxOf(S) == CHOOSE x \in S : \A y \in S : x >= y
After(its, ix) == {j \in EntryIndices(its) : j > ix}
Before(its, ix) == {j \in EntryIndices(its) : j < ix}

\* C4: with Some(ix) selected, select_next selects the smallest index j > ix
\* holding an Entry and select_prev the largest index j < ix holding an
\* Entry, whatever Headers and Separators lie in between.
C4_NextPrevTarget ==
    [][/\ (last_op'.name = "select_next" /\ selected_index # None
              /\ After(items, selected_index[1]) # {}) =>
            selected_index' = Some(MinOf(After(items, selected_index[1])))
       /\ (last_op'.name = "select_prev" /\ selected_index # None
              /\ Before(items, selected_index[1]) # {}) =>
            selected_index' = Some(MaxOf(Before(items, selected_index[1])))]_vars

\* select_next has stepped from one Entry over a Header and a Separator to
\* the next Entry.
C4_Witness ==
    /\ last_op.name = "select_next"
    /\ last_op.before # None
    /\ selected_index # None
    /\ selected_index[1] = last_op.before[1] + 3
    /\ {items[last_op.before[1] + 2].kind, items[last_op.before[1] + 3].kind} = {"Header", "Separator"}

\* C5: the cursor does not wrap: select_next on the last Entry and
\* select_prev on the first Entry leave selected_index unchanged.
C5_NoWrap ==
    [][/\ (last_op'.name = "select_next" /\ selected_index # None
              /\ After(items, selected_index[1]) = {}) =>
            selected_index' = selected_index
       /\ (last_op'.name = "select_prev" /\ selected_index # None
              /\ Before(items, selected_index[1]) = {}) =>
            selected_index' = selected_index]_vars

\* select_next was issued on the last of several Entries.
C5_Witness ==
    /\ last_op.name = "select_next"
    /\ last_op.before # None
    /\ selected_index = last_op.before
    /\ Cardinality(EntryIndices(items)) >= 2
    /\ selected_index[1] = MaxOf(EntryIndices(items))

\* C6: select_first selects the lowest index holding an Entry and
\* select_last the highest, whatever was selected before; on a list without
\* an Entry the selection is None after either.
C6_FirstLast ==
    [][/\ last_op'.name = "select_first" =>
            selected_index' = IF EntryIndices(items) = {} THEN None
                              ELSE Some(MinOf(EntryIndices(items)))
       /\ last_op'.name = "select_last" =>
            selected_index' = IF EntryIndices(items) = {} THEN None
                              ELSE Some(MaxOf(EntryIndices(items)))]_vars

\* select_last moved an existing selection to the last Entry, which is the
\* last item of the list.
C6_Witness ==
    /\ last_op.name = "select_last"
    /\ last_op.before # None
    /\ selected_index # last_op.before
    /\ selected_index = Some(Len(items) - 1)

\* select_last was issued on a non-empty list without an Entry.
C6_WitnessNoEntry ==
    /\ last_op.name = "select_last"
    /\ items # <<>>
    /\ EntryIndices(items) = {}
    /\ selected_index = None

\* C7: with nothing selected, select_next has the effect of select_first and
\* select_prev the effect of select_last, on every item list.
C7_NoneDelegates ==
    [][/\ (last_op'.name = "select_next" /\ selected_index = None) =>
            /\ selected_index' = select_first(items, selected_index).sel
            /\ trace' = select_first(items, selected_index).fx
       /\ (last_op'.name = "select_prev" /\ selected_index = None) =>
            /\ selected_index' = select_last(items, selected_index).sel
            /\ trace' = select_last(items, selected_index).fx]_vars

\* select_next was issued with nothing selected on a list whose first Entry
\* is not its first item.
C7_Witness ==
    /\ last_op.name = "select_next"
    /\ last_op.before = None
    /\ selected_index # None
    /\ selected_index[1] > 0

BuilderCalls == {"header", "separator", "entry", "action"}
KindBuiltBy(name) ==
    IF name = "header" THEN "Header"
    ELSE IF name = "separator" THEN "Separator"
    ELSE "Entry"

\* C8: build starts with an empty list and nothing selected; every call of
\* header, separator, entry or action appends exactly one item of its kind at
\* the end, keeps the earlier items in place and keeps selected_index None.
C8_Builder ==
    [][/\ last_op.name = "build" => (items = <<>> /\ selected_index = None)
       /\ last_op'.name \in BuilderCalls =>
            /\ Len(items') = Len(items) + 1
            /\ SubSeq(items', 1, Len(items)) = items
            /\ items'[Len(items')].kind = KindBuiltBy(last_op'.name)
            /\ selected_index = None
            /\ selected_index' = None]_vars

\* The builder has appended an item of another kind to a list of two or more.
C8_Witness ==
    /\ pc = "building"
    /\ last_op.name = "action"
    /\ Len(items) >= 3
    /\ items[Len(items)].kind = "Entry"
    /\ items[Len(items)].handler.action # NoAction
    /\ items[1].kind = "Header"
    /\ items[2].kind = "Separator"
    /\ selected_index = None

\* C9: after build, selected_index is None or Some(ix) with ix < len(items)
\* and items[ix] an Entry.
C9_SelectionValid ==
    pc = "built" => (selected_index = None \/ IsEntryAt(items, selected_index[1]))

\* An Entry is selected in a list that also holds a Header and a Separator,
\* after a selection operation moved the cursor.
C9_Witness ==
    /\ last_op.name \in {"select_next", "select_prev"}
    /\ selected_index # None
    /\ selected_index # last_op.before
    /\ \E i \in 1..Len(items) : items[i].kind = "Header"
    /\ \E i \in 1..Len(items) : items[i].kind = "Separator"

\* C10: once selected_index is Some, no menu operation makes it None again.
C10_SelectionSticks ==
    [][selected_index # None => selected_index' # None]_vars

\* select_first was issued while an Entry was selected.
C10_Witness ==
    /\ last_op.name = "select_first"
    /\ last_op.before # None
    /\ selected_index # None
    /\ selected_index # last_op.before

\* The m-th Entry of a list in index order, and the m-th counted from the end.
NthEntry(its, m) ==
    CHOOSE j \in EntryIndices(its) : Cardinality({i \in EntryIndices(its) : i <= j}) = m
NthEntryFromEnd(its, m) ==
    CHOOSE j \in EntryIndices(its) : Cardinality({i \in EntryIndices(its) : i >= j}) = m
MinNat(a, b) == IF a < b THEN a ELSE b

\* C11: on a list with n >= 1 Entries, after k >= 1 consecutive select_next
\* operations that started with nothing selected, the min(k, n)-th Entry is
\* selected; after k consecutive select_prev operations, the min(k, n)-th
\* Entry counted from the end.
C11_StreakPosition ==
    (streak.k >= 1 /\ EntryIndices(items) # {}) =>
        LET m == MinNat(streak.k, Cardinality(EntryIndices(items)))
        IN  selected_index =
                Some(IF streak.name = "select_next"
                     THEN NthEntry(items, m)
                     ELSE NthEntryFromEnd(items, m))

\* Three select_next operations from None have walked over three Entries of
\* a list that also holds other items.
C11_Witness ==
    /\ streak.name = "select_next"
    /\ streak.k = 3
    /\ Cardinality(EntryIndices(items)) = 3
    /\ Len(items) > 3
    /\ selected_index = Some(MaxOf(EntryIndices(items)))

\* More select_prev operations than there are Entries: the cursor rests on
\* the first Entry.
C11_WitnessRest ==
    /\ streak.name = "select_prev"
    /\ streak.k > Cardinality(EntryIndices(items))
    /\ Cardinality(EntryIndices(items)) >= 2
    /\ selected_index = Some(MinOf(EntryIndices(items)))

\* C12: with an Entry selected that is not the last Entry, select_next
\* followed by select_prev restores selected_index; with an Entry selected
\* that is not the first Entry, select_prev followed by select_next restores
\* it.
C12_RoundTrip ==
    /\ (/\ prev_op.name = "select_next"
        /\ last_op.name = "select_prev"
        /\ prev_op.before # None
        /\ After(items, prev_op.before[1]) # {}) => selected_index = prev_op.before
    /\ (/\ prev_op.name = "select_prev"
        /\ last_op.name = "select_next"
        /\ prev_op.before # None
        /\ Before(items, prev_op.before[1]) # {}) => selected_index = prev_op.before

\* select_next stepped over a non-selectable item to the next Entry and
\* select_prev stepped back.
C12_Witness ==
    /\ prev_op.name = "select_next"
    /\ last_op.name = "select_prev"
    /\ prev_op.before # None
    /\ last_op.before # None
    /\ last_op.before[1] > prev_op.before[1] + 1
    /\ selected_index = prev_op.before

SelectionOps == {"select_first", "select_last", "select_next", "select_prev"}

\* C13: every step that changes selected_index calls notify in the same
\* operation, and only the four selection operations change it.
C13_NotifyOnChange ==
    [][selected_index' # selected_index =>
        /\ last_op'.name \in SelectionOps
        /\ Count(trace', "notify") >= 1]_vars

\* select_last moved the selection and called notify.
C13_Witness ==
    /\ last_op.name = "select_last"
    /\ selected_index # last_op.before
    /\ Count(trace, "notify") = 1

\* C14: the four selection operations leave the item list unchanged, run no
\* handler, dispatch no action and emit no DismissEvent; once the menu is
\* built no operation modifies the item list.
C14_SelectionFrame ==
    [][/\ last_op'.name \in SelectionOps =>
            /\ items' = items
            /\ Count(trace', "handler") = 0
            /\ Count(trace', "dispatch_action") = 0
            /\ Count(trace', "DismissEvent") = 0
       /\ pc = "built" => items' = items]_vars

\* select_first moved the selection of a list that holds an action entry.
C14_Witness ==
    /\ last_op.name = "select_first"
    /\ last_op.before # None
    /\ selected_index # last_op.before
    /\ trace = <<Notify>>
    /\ \E i \in 1..Len(items) : items[i].handler.action # NoAction

Highlighted(f) == {i \in 1..Len(f) : f[i].selected}

\* C15: in the frame a render builds, the element for index ix is marked
\* selected exactly when selected_index = Some(ix); so at most one element
\* is highlighted, none when nothing is selected, and never a Header or a
\* Separator.
C15_RenderSelection ==
    [][last_op'.name = "render" =>
        /\ frame' # None
        /\ Len(frame'[1]) = Len(items)
        /\ \A i \in 1..Len(items) :
              frame'[1][i].selected <=> (selected_index = Some(i - 1))
        /\ Cardinality(Highlighted(frame'[1])) <= 1
        /\ selected_index = None => Highlighted(frame'[1]) = {}
        /\ \A i \in Highlighted(frame'[1]) : items[i].kind = "Entry"]_vars

\* A menu with a Header, a Separator and a selected Entry that is not the
\* first item has been rendered.
C15_Witness ==
    /\ last_op.name = "render"
    /\ selected_index # None
    /\ selected_index[1] > 0
    /\ Highlighted(frame[1]) = {selected_index[1] + 1}
    /\ \E i \in 1..Len(items) : items[i].kind = "Header"
    /\ \E i \in 1..Len(items) : items[i].kind = "Separator"

IsActionEntry(item) == item.kind = "Entry" /\ item.handler.action # NoAction

\* What activating an action entry does: its handler runs, dispatches its
\* action once, and then the DismissEvent is emitted.
ActionActivation(item) ==
    <<HandlerCall(item.handler.rc), DispatchAction(item.handler.action), DismissEvent>>

\* C16: action(label, action) appends an Entry whose handler dispatches that
\* action; confirming or clicking such an entry dispatches the action exactly
\* once, before the DismissEvent, and leaves the entry as it was, so that it
\* dispatches the same action when it is triggered again.
C16_ActionEntry ==
    [][/\ last_op'.name = "action" =>
            /\ IsActionEntry(items'[Len(items')])
            /\ items'[Len(items')].handler.action \in Actions
            /\ items'[Len(items')].key_binding =
                   KeyBinding_for_action(items'[Len(items')].handler.action)
       /\ (/\ last_op'.name = "confirm"
           /\ selected_index # None
           /\ IsActionEntry(items[selected_index[1] + 1])) =>
            /\ trace' = ActionActivation(items[selected_index[1] + 1])
            /\ items' = items
       /\ (last_op'.name = "click" /\ IsActionEntry(items[last_op'.ix + 1])) =>
            /\ trace' = ActionActivation(items[last_op'.ix + 1])
            /\ items' = items]_vars

\* An action entry was confirmed twice in a row and dispatched its action
\* the second time too.
C16_Witness ==
    /\ prev_op.name = "confirm"
    /\ last_op.name = "confirm"
    /\ selected_index # None
    /\ items[selected_index[1] + 1].handler.action = "Paste"
    /\ trace = ActionActivation(items[selected_index[1] + 1])

\* An action entry that is not selected was clicked twice in a row.
C16_WitnessClick ==
    /\ prev_op.name = "click"
    /\ last_op.name = "click"
    /\ selected_index # Some(last_op.ix)
    /\ items[last_op.ix + 1].handler.action = "Copy"
    /\ trace = ActionActivation(items[last_op.ix + 1])

====
